---------------------------- MODULE Spec2Model ----------------------------
(***************************************************************************)
(* A model of the E20 machine simulator, src/project1CA/project1CA/        *)
(* e20sim.cpp: the program loader (load_machine_code) followed by the      *)
(* fetch-decode-execute loop of main and the hand-over to print_state.     *)
(*                                                                         *)
(* The C++ type `unsigned` is 32 bits wide.  Every value a register or a   *)
(* memory cell can hold is below 2^31 (stoi returns an int, every computed *)
(* result is masked), so those values are plain naturals here; a sum or a  *)
(* difference that the code reduces with "& 0xFFFF" or "& 0x1FFF" is       *)
(* reduced with % on the operands first, which gives the same residue      *)
(* because 2^16 and 2^13 divide 2^32.  The program counter is not masked   *)
(* by the code; it grows by at most 65536 per cycle, so within MaxCycles   *)
(* cycles it stays far below 2^31 and its 32-bit wrap is out of reach.     *)
(***************************************************************************)
EXTENDS Integers, Sequences, FiniteSets, TLC

\* ------------------------------------------------------------- constants
NUM_REGS == 8
MEM_SIZE == 8192
REG_SIZE == 65536
\* largest value of the int that stoi returns
INT_MAX == 2147483647

ADD  == 0
ADDI == 1
J    == 2
JAL  == 3
LW   == 4
SW   == 5
JEQ  == 6
SLTI == 7

\* ---------------------------------------------------------------- bounds
\* cycles of the simulation loop a run may execute before the model stops it
MaxCycles == 12

\* ------------------------------------------------------- bit arithmetic
RECURSIVE Pow2(_)
Pow2(n) == IF n = 0 THEN 1 ELSE 2 * Pow2(n - 1)

\* a | b on naturals, bit by bit
RECURSIVE BitOr(_, _)
BitOr(a, b) ==
    IF a = 0 THEN b
    ELSE IF b = 0 THEN a
    ELSE (IF (a % 2 = 1) \/ (b % 2 = 1) THEN 1 ELSE 0)
         + 2 * BitOr(a \div 2, b \div 2)

\* a & b on naturals, bit by bit
RECURSIVE BitAnd(_, _)
BitAnd(a, b) ==
    IF a = 0 \/ b = 0 THEN 0
    ELSE (IF (a % 2 = 1) /\ (b % 2 = 1) THEN 1 ELSE 0)
         + 2 * BitAnd(a \div 2, b \div 2)

\* mutant: the mask one bit too wide
extract_bits_WideMask(instruction, start, end) ==
    (instruction \div Pow2(start)) % Pow2(end - start + 2)

\* unsigned mask = (1 << (end - start + 1)) - 1; return (instruction >> start) & mask;
extract_bits(instruction, start, end) ==
    (instruction \div Pow2(start)) % Pow2(end - start + 1)

\* mutant: the sign bit looked for at bit 7, which a 7-bit field never has
sign_extend_Bit7(value) ==
    LET v == IF BitAnd(value, 128) # 0 THEN BitOr(value, 65408) ELSE value
    IN  BitAnd(v, 65535)

\* if (value & 0b1000000) value = value | 0xFF80; return value & 0xFFFF;
sign_extend(value) ==
    LET v == IF BitAnd(value, 64) # 0 THEN BitOr(value, 65408) ELSE value
    IN  BitAnd(v, 65535)

\* ------------------------------------------------------------ the loader
\* A line of the image file is a record: fmt says whether the line matches
\* the pattern ^ram\[(\d+)\] = 16'b(\d+);.*$ and, when it does, addr and
\* data are the two digit strings (sequences of digits 0..9) it captures.

\* std::stoi(s, nullptr, base) on a digit string: the longest prefix of
\* digits valid in the base is converted; no valid first digit throws
\* invalid_argument, a value above INT_MAX throws out_of_range.
RECURSIVE StoiAcc(_, _, _, _)
StoiAcc(s, i, base, acc) ==
    IF i > Len(s) \/ s[i] >= base THEN [err |-> "none", val |-> acc]
    ELSE IF acc > (INT_MAX - s[i]) \div base
         THEN [err |-> "out_of_range", val |-> 0]
         ELSE StoiAcc(s, i + 1, base, acc * base + s[i])

stoi(s, base) ==
    IF Len(s) = 0 \/ s[1] >= base
    THEN [err |-> "invalid_argument", val |-> 0]
    ELSE StoiAcc(s, 1, base, 0)


\* what one pass of the while (getline(f, line)) body does with a line,
\* given the expected_addr it finds
LineOutcome(line, expected) ==
    IF ~line.fmt THEN "invalid_format"
    ELSE LET a == stoi(line.addr, 10)
             w == stoi(line.data, 2)
         IN  IF a.err # "none" \/ w.err # "none" THEN "stoi_throws"
             ELSE IF a.val # expected THEN "out_of_sequence"
             ELSE IF a.val >= MEM_SIZE THEN "too_large"
             ELSE "store"

\* how the process ends on a line that is not stored
ExitOf(outcome) == IF outcome = "stoi_throws" THEN "abort" ELSE "exit1"

\* ------------------------------------------------------- image files
\* decimal digits of n, most significant first
RECURSIVE Dec(_)
Dec(n) == IF n < 10 THEN <<n>> ELSE Append(Dec(n \div 10), n % 10)

\* the k binary digits of w, most significant first
RECURSIVE Bin(_, _)
Bin(w, k) == IF k = 0 THEN <<>> ELSE Append(Bin(w \div 2, k - 1), w % 2)

\* the line  ram[a] = 16'b<w as 16 binary digits>;
MkLine(a, w) == [fmt |-> TRUE, addr |-> Dec(a), data |-> Bin(w, 16)]

\* the image that holds the words ws at addresses 0, 1, 2, ...
Image(ws) == [head |-> [k \in 1..Len(ws) |-> MkLine(k - 1, ws[k])], fill |-> 0]

\* A file is its first lines (head) followed by fill further lines, each
\* giving the next address in sequence and the word 0.
NumLines(f) == Len(f.head) + f.fill
Line(f, k) == IF k <= Len(f.head) THEN f.head[k] ELSE MkLine(k - 1, 0)

\* instruction words
Enc3(op, a, b, d, sub) == op * 8192 + a * 1024 + b * 128 + d * 16 + sub
Enc2(op, a, b, imm7)   == op * 8192 + a * 1024 + b * 128 + imm7
Enc1(op, imm13)        == op * 8192 + imm13
\* the 7-bit field of a signed immediate in -64..63
Imm7(s) == IF s < 0 THEN 128 + s ELSE s

\* register and data values the image families use
Vals == {0, 1, 2, 32767, 32768, 65535}
DstRegs == {0, 1, 2, 3}

\* ADDI $1,$0,5; ADDI $2,$0,3; ADD $3,$1,$2; J 3
EndToEnd == Image(<<Enc2(ADDI, 0, 1, 5), Enc2(ADDI, 0, 2, 3),
                    Enc3(ADD, 1, 2, 3, 0), Enc1(J, 3)>>)

\* J 0 alone, and the empty file
JumpToSelfAt0 == Image(<<Enc1(J, 0)>>)
\* ADDI $1,$0,-64; J 1
AddiMinus64 == Image(<<Enc2(ADDI, 0, 1, Imm7(-64)), Enc1(J, 1)>>)
\* JEQ $0,$0,-1 alone
JeqToSelfAt0 == Image(<<Enc2(JEQ, 0, 0, Imm7(-1))>>)
SmallImages == {JumpToSelfAt0, AddiMinus64, JeqToSelfAt0, Image(<<>>)}

\* LW $1,4($0); LW $2,5($0); <ADD-class sub> $d,$1,$2; J 3; x; y
AluImages ==
    { Image(<<Enc2(LW, 0, 1, 4), Enc2(LW, 0, 2, 5), Enc3(ADD, 1, 2, d, sub),
              Enc1(J, 3), x, y>>) :
        x \in Vals, y \in Vals, d \in DstRegs, sub \in 0..15 }

\* the same program, OR and AND of operands with mixed bits
BitImages ==
    { Image(<<Enc2(LW, 0, 1, 4), Enc2(LW, 0, 2, 5), Enc3(ADD, 1, 2, 3, sub),
              Enc1(J, 3), x, y>>) :
        x \in {255, 3855, 21845, 43690}, y \in {255, 3855, 21845, 43690},
        sub \in {2, 3} }

\* LW $1,3($0); <op> $1,$b,imm; J 2; x     for the five 7-bit-immediate opcodes
ImmImagesOf(imms, xs) ==
    { Image(<<Enc2(LW, 0, 1, 3), Enc2(op, 1, b, imm), Enc1(J, 2), x>>) :
        op \in {ADDI, LW, SW, JEQ, SLTI}, b \in 0..2, imm \in imms, x \in xs }
ImmImages == ImmImagesOf(0..127, Vals)

\* JAL t; J 1; JR $7; J 3
JalImages ==
    { Image(<<Enc1(JAL, t), Enc1(J, 1), Enc3(ADD, 7, 0, 0, 8), Enc1(J, 3)>>) :
        t \in {0, 1, 2, 3, 8190, 8191} }

\* Calls that return: JAL 2; J 1; ADDI $7,$7,k; JR $7, where k = 0 leaves the
\* link as it is and any other k moves it.
ReturnImages ==
    { Image(<<Enc1(JAL, 2), Enc1(J, 1), Enc2(ADDI, 7, 7, k),
              Enc3(ADD, 7, 0, 0, 8)>>) : k \in {0, 5, 127} }

\* Stores that may land on the program: LW $1,5($0); LW $2,6($0);
\* SW $b,imm($1); J 3; J 4; x; y, with the store at address 3 when
\* x + imm = 3 modulo 8192.
StoreImages ==
    { Image(<<Enc2(LW, 0, 1, 5), Enc2(LW, 0, 2, 6), Enc2(SW, 1, b, Imm7(s)),
              Enc1(J, 3), Enc1(J, 4), x, y>>) :
        b \in {0, 2}, s \in {0, 4, 0 - 4}, x \in {3, 7, 8191, 65535},
        y \in {0, Enc1(J, 4), 65535} }

\* A store and a load through the same base and immediate, with one
\* instruction between them: LW $1,6($0); LW $2,7($0); SW $2,s($1); <mid>;
\* LW $3,s($1); J 5; x; y, where mid is a no-op, SW $0,9($0), SW $0,0($1),
\* ADDI $1,$1,1 or ADDI $1,$1,0.
RoundTripImages ==
    { Image(<<Enc2(LW, 0, 1, 6), Enc2(LW, 0, 2, 7), Enc2(SW, 1, 2, Imm7(s)),
              mid, Enc2(LW, 1, 3, Imm7(s)), Enc1(J, 5), x, y>>) :
        s \in {0, 5, 63, 0 - 1, 0 - 64}, x \in {0, 4, 100, 8191, 65535},
        y \in {1, 65535},
        mid \in {0, Enc2(SW, 0, 0, 9), Enc2(SW, 1, 0, 0), Enc2(ADDI, 1, 1, 1),
                 Enc2(ADDI, 1, 1, 0)} }

\* A call made with a program counter of 65537, and its return:
\* JEQ $1,$0,1; JAL 4; ADDI $1,$0,1; JEQ $0,$0,-4; JR $7
FarCallImage ==
    Image(<<Enc2(JEQ, 1, 0, 1), Enc1(JAL, 4), Enc2(ADDI, 0, 1, 1),
            Enc2(JEQ, 0, 0, Imm7(0 - 4)), Enc3(ADD, 7, 0, 0, 8)>>)

\* Runs that come back to a self-targeting jump at address 1 with a program
\* counter of 8192 or more: JEQ $1,$0,1; <jump to 1>; ADDI $1,$0,1; <way back>
\* where the way back is J 8191 (falling through the end of memory) or a
\* JEQ with a negative immediate.
WrapImages ==
    { Image(<<Enc2(JEQ, 1, 0, 1), self, Enc2(ADDI, 0, 1, 1), back>>) :
        self \in {Enc1(J, 1), Enc1(JAL, 1), Enc2(JEQ, 0, 0, Imm7(-1)),
                  Enc3(ADD, 1, 0, 0, 8)},
        back \in {Enc1(J, 8191), Enc2(JEQ, 0, 0, Imm7(-4)),
                  Enc2(JEQ, 0, 0, Imm7(-3))} }

\* files the loader does not accept as they stand, or reads in a way of its own
OddLine(a, d) == [fmt |-> TRUE, addr |-> a, data |-> d]
NoMatch == [fmt |-> FALSE, addr |-> <<>>, data |-> <<>>]
LoaderImages ==
    LET l0 == MkLine(0, Enc2(LW, 0, 1, 2))
        l1 == MkLine(1, Enc1(J, 1))
        file(ls) == [head |-> ls, fill |-> 0]
    IN  { file(<<l0, l1, MkLine(3, 0)>>),                \* addresses 0,1,3
          file(<<l0, MkLine(0, 0)>>),                    \* addresses 0,0
          file(<<MkLine(1, 0)>>),                        \* first address 1
          file(<<l0, l1, MkLine(8192, 0)>>),             \* address 8192 early
          file(<<l0, l1, NoMatch>>),                     \* a line of another shape
          file(<<l0, OddLine(<<9,9,9,9,9,9,9,9,9,9,9>>, Bin(0, 16))>>),
          file(<<l0, l1, OddLine(<<3>>, <<2>>)>>),       \* ram[3] = 16'b2;
          file(<<l0, l1, OddLine(<<2>>, <<2>>)>>),       \* ram[2] = 16'b2;
          file(<<l0, l1, OddLine(<<2>>, [i \in 1..33 |-> 1])>>),  \* 33 binary digits
          file(<<l0, l1, OddLine(<<0, 2>>, <<1, 0, 2>>)>>),  \* ram[02] = 16'b102;
          file(<<l0, l1, OddLine(<<2>>, Bin(131071, 17))>>), \* a 17-bit word
          file(<<l0, l1, OddLine(<<2>>, Bin(INT_MAX, 31))>>),
          file(<<OddLine(<<0>>, Bin(131071, 17)), l1>>),     \* executed at address 0
          file(<<OddLine(<<0>>, Bin(INT_MAX, 31)), l1>>),
          [head |-> <<>>, fill |-> MEM_SIZE + 1] }       \* 8193 lines

Images ==
    {EndToEnd} \cup SmallImages \cup AluImages \cup ImmImages \cup JalImages
    \cup WrapImages \cup LoaderImages \cup ReturnImages \cup {FarCallImage} \cup BitImages
    \cup RoundTripImages
    \cup StoreImages

\* the images of the runs whose termination is checked
LiveImages ==
    {EndToEnd} \cup SmallImages \cup JalImages \cup WrapImages
    \cup ImmImagesOf({1, 127}, {0, 65535})

\* ------------------------------------------------------------- the state
VARIABLES
    file,           \* the image file handed to load_machine_code
    lineno,         \* lines getline has read so far
    expected_addr,  \* load_machine_code's expected_addr
    memory,         \* unsigned memory[MEM_SIZE]: the cells that are not 0
    registers,      \* unsigned registers[NUM_REGS]
    pc,             \* the program counter
    halted,         \* the halt flag
    ctl,            \* where the process is: "load", "run", "exit0", "exit1", "abort"
    cycles,         \* completed passes of the simulation loop
    last,           \* what the last completed pass fetched, computed and accessed
    link,           \* the program counter of the latest JAL whose register 7
                    \* still holds the value that JAL wrote, else NoAccess
    stored          \* for each address an SW has written: what the latest
                    \* such SW stored, its regA and imm7 fields and its base

vars == <<file, lineno, expected_addr, memory, registers, pc, halted, ctl,
          cycles, last, link, stored>>

\* memory[a], and memory after memory[a] = v; a cell holding 0 is not stored
MemRead(m, a) == IF a \in DOMAIN m THEN m[a] ELSE 0
MemWrite(m, a, v) ==
    IF v = 0 THEN [x \in DOMAIN m \ {a} |-> m[x]]
    ELSE [x \in DOMAIN m \cup {a} |-> IF x = a THEN v ELSE m[x]]

\* no data access in a cycle
NoAccess == 0 - 1

\* mutant: the register array left without its initialiser holds what the
\* stack held
ZeroRegisters_Uninit == [r \in 0..NUM_REGS - 1 |-> 43690]

\* unsigned registers[NUM_REGS] = {0};
ZeroRegisters == [r \in 0..NUM_REGS - 1 |-> 0]

InitWith(images) ==
    /\ file \in images
    /\ lineno = 0
    /\ expected_addr = 0
    /\ memory = <<>>
    /\ registers = ZeroRegisters
    /\ pc = 0
    /\ halted = FALSE
    /\ ctl = "load"
    /\ cycles = 0
    /\ last = [current_pc |-> 0, instruction |-> 0, next_pc |-> 0,
               fetch_idx |-> 0, data_idx |-> NoAccess,
               regs |-> [r \in 0..NUM_REGS - 1 |-> 0]]
    /\ link = NoAccess
    /\ stored = <<>>

Init == InitWith(Images)

\* ---------------------------------------------------- load_machine_code
\* one pass of the while (getline(f, line)) body
LoadLine ==
    /\ ctl = "load"
    /\ lineno < NumLines(file)
    /\ LET line == Line(file, lineno + 1)
           outcome == LineOutcome(line, expected_addr)
       IN  IF outcome = "store"
           THEN \* mem[addr] = instr; expected_addr++;
                /\ memory' = MemWrite(memory, stoi(line.addr, 10).val,
                                      stoi(line.data, 2).val)
                /\ expected_addr' = expected_addr + 1
                /\ UNCHANGED ctl
           ELSE \* exit(1) after a message on cerr, or std::terminate when
                \* stoi throws and nothing catches it
                /\ ctl' = ExitOf(outcome)
                /\ UNCHANGED <<memory, expected_addr>>
    /\ lineno' = lineno + 1
    /\ UNCHANGED <<file, registers, pc, halted, cycles, last, link, stored>>

\* getline finds the end of the file: load_machine_code returns to main
LoadDone ==
    /\ ctl = "load"
    /\ lineno = NumLines(file)
    /\ ctl' = "run"
    /\ UNCHANGED <<file, memory, expected_addr, lineno, registers, pc, halted,
                   cycles, last, link, stored>>

\* ------------------------------------------------- the simulation loop
\* (a + b) & (m - 1) for a power of two m that divides 2^32
AddMasked(a, b, m) == ((a % m) + (b % m)) % m
\* (a - b) & (m - 1), likewise
SubMasked(a, b, m) == ((a % m) - (b % m)) % m

\* memory[current_pc % MEM_SIZE]
\* mutant: the fetch indexes memory with the program counter as it is
FetchIdx_NoWrap(current_pc) == current_pc

FetchIdx(current_pc) == current_pc % MEM_SIZE
Fetch(mem, current_pc) == MemRead(mem, FetchIdx(current_pc))
Opcode(instruction) == extract_bits(instruction, 13, 15)

\* Each handler gives the registers and memory it leaves, the next_pc it
\* computes and the memory index it accessed (NoAccess when none).
Effect(regs, mem, next_pc, idx) ==
    [regs |-> regs, mem |-> mem, next_pc |-> next_pc, data_idx |-> idx]

\* mutant: the ADD and SUB cases exchanged
AluResult_AddSubSwapped(last_four_bit, a, b, old) ==
    CASE last_four_bit = 0 -> SubMasked(a, b, REG_SIZE)
      [] last_four_bit = 1 -> AddMasked(a, b, REG_SIZE)
      [] last_four_bit = 2 -> BitAnd(BitOr(a, b), 65535)
      [] last_four_bit = 3 -> BitAnd(BitAnd(a, b), 65535)
      [] last_four_bit = 4 -> IF a < b THEN 1 ELSE 0
      [] OTHER -> old

\* mutant: a sub-code without a case clears the destination
AluResult_OtherClears(last_four_bit, a, b, old) ==
    CASE last_four_bit = 0 -> AddMasked(a, b, REG_SIZE)
      [] last_four_bit = 1 -> SubMasked(a, b, REG_SIZE)
      [] last_four_bit = 2 -> BitAnd(BitOr(a, b), 65535)
      [] last_four_bit = 3 -> BitAnd(BitAnd(a, b), 65535)
      [] last_four_bit = 4 -> IF a < b THEN 1 ELSE 0
      [] OTHER -> 0

\* mutant: SLT compares the operands as signed 16-bit values
AluResult_SignedSlt(last_four_bit, a, b, old) ==
    CASE last_four_bit = 0 -> AddMasked(a, b, REG_SIZE)
      [] last_four_bit = 1 -> SubMasked(a, b, REG_SIZE)
      [] last_four_bit = 2 -> BitAnd(BitOr(a, b), 65535)
      [] last_four_bit = 3 -> BitAnd(BitAnd(a, b), 65535)
      [] last_four_bit = 4 ->
            IF (IF a >= 32768 THEN a - REG_SIZE ELSE a)
                  < (IF b >= 32768 THEN b - REG_SIZE ELSE b) THEN 1 ELSE 0
      [] OTHER -> old

\* the inner switch (last_four_bit) of case ADD, entered when regDst != 0
AluResult(last_four_bit, a, b, old) ==
    CASE last_four_bit = 0 -> AddMasked(a, b, REG_SIZE)
      [] last_four_bit = 1 -> SubMasked(a, b, REG_SIZE)
      [] last_four_bit = 2 -> BitAnd(BitOr(a, b), 65535)
      [] last_four_bit = 3 -> BitAnd(BitAnd(a, b), 65535)
      [] last_four_bit = 4 -> IF a < b THEN 1 ELSE 0
      [] OTHER -> old

ExecADD(instruction, regs, mem, current_pc) ==
    LET regA == extract_bits(instruction, 10, 12)
        regB == extract_bits(instruction, 7, 9)
        regDst == extract_bits(instruction, 4, 6)
        last_four_bit == extract_bits(instruction, 0, 3)
        regs1 == IF regDst # 0
                 THEN [regs EXCEPT ![regDst] =
                          AluResult(last_four_bit, regs[regA], regs[regB],
                                    regs[regDst])]
                 ELSE regs
        next_pc == IF last_four_bit = 8 THEN BitAnd(regs1[regA], 8191)
                   ELSE current_pc + 1
    IN  Effect(regs1, mem, next_pc, NoAccess)

\* mutant: the destination taken from bits 4..6, as in the ADD case
ExecADDI_DstField(instruction, regs, mem, current_pc) ==
    LET regA == extract_bits(instruction, 10, 12)
        regDst == extract_bits(instruction, 4, 6)
        imm == sign_extend(extract_bits(instruction, 0, 6))
        regs1 == IF regDst # 0
                 THEN [regs EXCEPT ![regDst] = AddMasked(regs[regA], imm, REG_SIZE)]
                 ELSE regs
    IN  Effect(regs1, mem, current_pc + 1, NoAccess)

\* mutant: the sum stored without its 16-bit mask
ExecADDI_NoMask(instruction, regs, mem, current_pc) ==
    LET regA == extract_bits(instruction, 10, 12)
        regDst == extract_bits(instruction, 7, 9)
        imm == sign_extend(extract_bits(instruction, 0, 6))
        regs1 == IF regDst # 0
                 THEN [regs EXCEPT ![regDst] = regs[regA] + imm]
                 ELSE regs
    IN  Effect(regs1, mem, current_pc + 1, NoAccess)

ExecADDI(instruction, regs, mem, current_pc) ==
    LET regA == extract_bits(instruction, 10, 12)
        regDst == extract_bits(instruction, 7, 9)
        imm == sign_extend(extract_bits(instruction, 0, 6))
        regs1 == IF regDst # 0
                 THEN [regs EXCEPT ![regDst] = AddMasked(regs[regA], imm, REG_SIZE)]
                 ELSE regs
    IN  Effect(regs1, mem, current_pc + 1, NoAccess)

ExecJ(instruction, regs, mem, current_pc) ==
    Effect(regs, mem, extract_bits(instruction, 0, 12), NoAccess)

\* mutant: the link is the address of the JAL itself
ExecJAL_LinkSelf(instruction, regs, mem, current_pc) ==
    Effect([regs EXCEPT ![7] = current_pc % REG_SIZE], mem,
           extract_bits(instruction, 0, 12), NoAccess)

ExecJAL(instruction, regs, mem, current_pc) ==
    Effect([regs EXCEPT ![7] = (current_pc + 1) % REG_SIZE], mem,
           extract_bits(instruction, 0, 12), NoAccess)

\* mutant: the effective address without its mask
EffectiveAddr_NoMask(base, imm) == base + imm

\* unsigned addr = (registers[regA] + imm) & 0x1FFF;
EffectiveAddr(base, imm) == AddMasked(base, imm, MEM_SIZE)

\* mutant: the load also writes the old destination value back to memory
ExecLW_Stores(instruction, regs, mem, current_pc) ==
    LET regA == extract_bits(instruction, 10, 12)
        regDst == extract_bits(instruction, 7, 9)
        imm == sign_extend(extract_bits(instruction, 0, 6))
        addr == EffectiveAddr(regs[regA], imm)
        regs1 == IF regDst # 0
                 THEN [regs EXCEPT ![regDst] = MemRead(mem, addr)]
                 ELSE regs
    IN  Effect(regs1, MemWrite(mem, addr, regs[regDst]), current_pc + 1, addr)

\* mutant: the load takes its immediate without sign extension
ExecLW_NoSignExtend(instruction, regs, mem, current_pc) ==
    LET regA == extract_bits(instruction, 10, 12)
        regDst == extract_bits(instruction, 7, 9)
        imm == extract_bits(instruction, 0, 6)
        addr == EffectiveAddr(regs[regA], imm)
        regs1 == IF regDst # 0
                 THEN [regs EXCEPT ![regDst] = MemRead(mem, addr)]
                 ELSE regs
    IN  Effect(regs1, mem, current_pc + 1, IF regDst # 0 THEN addr ELSE NoAccess)

ExecLW(instruction, regs, mem, current_pc) ==
    LET regA == extract_bits(instruction, 10, 12)
        regDst == extract_bits(instruction, 7, 9)
        imm == sign_extend(extract_bits(instruction, 0, 6))
        addr == EffectiveAddr(regs[regA], imm)
        regs1 == IF regDst # 0
                 THEN [regs EXCEPT ![regDst] = MemRead(mem, addr)]
                 ELSE regs
    IN  Effect(regs1, mem, current_pc + 1, IF regDst # 0 THEN addr ELSE NoAccess)

\* mutant: a store from register 0 is suppressed, as a write to it is
ExecSW_SkipsReg0(instruction, regs, mem, current_pc) ==
    LET regA == extract_bits(instruction, 10, 12)
        regB == extract_bits(instruction, 7, 9)
        imm == sign_extend(extract_bits(instruction, 0, 6))
        addr == EffectiveAddr(regs[regA], imm)
    IN  Effect(regs, IF regB # 0 THEN MemWrite(mem, addr, regs[regB]) ELSE mem,
               current_pc + 1, addr)

ExecSW(instruction, regs, mem, current_pc) ==
    LET regA == extract_bits(instruction, 10, 12)
        regB == extract_bits(instruction, 7, 9)
        imm == sign_extend(extract_bits(instruction, 0, 6))
        addr == EffectiveAddr(regs[regA], imm)
    IN  Effect(regs, MemWrite(mem, addr, regs[regB]), current_pc + 1, addr)

\* mutant: the branch taken relative to the branch itself
ExecJEQ_RelativeToSelf(instruction, regs, mem, current_pc) ==
    LET regA == extract_bits(instruction, 10, 12)
        regB == extract_bits(instruction, 7, 9)
        imm == sign_extend(extract_bits(instruction, 0, 6))
        next_pc == IF regs[regA] = regs[regB] THEN current_pc + imm
                   ELSE current_pc + 1
    IN  Effect(regs, mem, next_pc, NoAccess)

ExecJEQ(instruction, regs, mem, current_pc) ==
    LET regA == extract_bits(instruction, 10, 12)
        regB == extract_bits(instruction, 7, 9)
        imm == sign_extend(extract_bits(instruction, 0, 6))
        next_pc == IF regs[regA] = regs[regB] THEN current_pc + 1 + imm
                   ELSE current_pc + 1
    IN  Effect(regs, mem, next_pc, NoAccess)

\* mutant: the comparison made between signed values
ExecSLTI_Signed(instruction, regs, mem, current_pc) ==
    LET regA == extract_bits(instruction, 10, 12)
        regDst == extract_bits(instruction, 7, 9)
        imm == sign_extend(extract_bits(instruction, 0, 6))
        sa == IF regs[regA] >= 32768 THEN regs[regA] - REG_SIZE ELSE regs[regA]
        si == IF imm >= 32768 THEN imm - REG_SIZE ELSE imm
        regs1 == IF regDst # 0
                 THEN [regs EXCEPT ![regDst] = IF sa < si THEN 1 ELSE 0]
                 ELSE regs
    IN  Effect(regs1, mem, current_pc + 1, NoAccess)

ExecSLTI(instruction, regs, mem, current_pc) ==
    LET regA == extract_bits(instruction, 10, 12)
        regDst == extract_bits(instruction, 7, 9)
        imm == sign_extend(extract_bits(instruction, 0, 6))
        regs1 == IF regDst # 0
                 THEN [regs EXCEPT ![regDst] = IF regs[regA] < imm THEN 1 ELSE 0]
                 ELSE regs
    IN  Effect(regs1, mem, current_pc + 1, NoAccess)

\* registers[0] = 0;
ZeroReg0(regs) == [regs EXCEPT ![0] = 0]

\* mutant: the comparison without the wraparound
HaltCheck_NoWrap(next_pc, current_pc) == next_pc = current_pc

\* halted = (next_pc % MEM_SIZE) == current_pc;
HaltCheck(next_pc, current_pc) == (next_pc % MEM_SIZE) = current_pc

\* the loop is about to fetch an instruction of opcode op
Executing(op) ==
    /\ ctl = "run"
    /\ ~halted
    /\ cycles < MaxCycles
    /\ Opcode(Fetch(memory, pc)) = op

\* switch (opcode): the effect of the handler the opcode selects
Dispatch(instruction, regs, mem, current_pc) ==
    CASE Opcode(instruction) = ADD  -> ExecADD(instruction, regs, mem, current_pc)
      [] Opcode(instruction) = ADDI -> ExecADDI(instruction, regs, mem, current_pc)
      [] Opcode(instruction) = J    -> ExecJ(instruction, regs, mem, current_pc)
      [] Opcode(instruction) = JAL  -> ExecJAL(instruction, regs, mem, current_pc)
      [] Opcode(instruction) = LW   -> ExecLW(instruction, regs, mem, current_pc)
      [] Opcode(instruction) = SW   -> ExecSW(instruction, regs, mem, current_pc)
      [] Opcode(instruction) = JEQ  -> ExecJEQ(instruction, regs, mem, current_pc)
      [] Opcode(instruction) = SLTI -> ExecSLTI(instruction, regs, mem, current_pc)

\* link after a pass that fetched instruction at current_pc and left new_regs
LinkAfter(instruction, current_pc, regs, new_regs) ==
    IF Opcode(instruction) = JAL THEN current_pc
    ELSE IF new_regs[7] = regs[7] THEN link
    ELSE NoAccess

\* stored after a pass that fetched instruction and accessed data_idx
StoredAfter(instruction, regs, data_idx) ==
    IF Opcode(instruction) = SW
    THEN [a \in DOMAIN stored \cup {data_idx} |->
            IF a = data_idx
            THEN [val |-> regs[extract_bits(instruction, 7, 9)],
                  regA |-> extract_bits(instruction, 10, 12),
                  imm7 |-> extract_bits(instruction, 0, 6),
                  base |-> regs[extract_bits(instruction, 10, 12)]]
            ELSE stored[a]]
    ELSE stored

\* the end of the loop body, after the handler left effect e
Commit(e) ==
    /\ registers' = ZeroReg0(e.regs)
    /\ halted' = HaltCheck(e.next_pc, pc)
    /\ pc' = e.next_pc
    /\ memory' = e.mem
    /\ cycles' = cycles + 1
    /\ last' = [current_pc |-> pc, instruction |-> Fetch(memory, pc),
                next_pc |-> e.next_pc, fetch_idx |-> FetchIdx(pc),
                data_idx |-> e.data_idx, regs |-> registers]
    /\ link' = LinkAfter(Fetch(memory, pc), pc, registers, ZeroReg0(e.regs))
    /\ stored' = StoredAfter(Fetch(memory, pc), registers, e.data_idx)
    /\ UNCHANGED <<file, lineno, expected_addr, ctl>>

CycleADD  == Executing(ADD)  /\ Commit(ExecADD(Fetch(memory, pc), registers, memory, pc))
CycleADDI == Executing(ADDI) /\ Commit(ExecADDI(Fetch(memory, pc), registers, memory, pc))
CycleJ    == Executing(J)    /\ Commit(ExecJ(Fetch(memory, pc), registers, memory, pc))
CycleJAL  == Executing(JAL)  /\ Commit(ExecJAL(Fetch(memory, pc), registers, memory, pc))
CycleLW   == Executing(LW)   /\ Commit(ExecLW(Fetch(memory, pc), registers, memory, pc))
CycleSW   == Executing(SW)   /\ Commit(ExecSW(Fetch(memory, pc), registers, memory, pc))
CycleJEQ  == Executing(JEQ)  /\ Commit(ExecJEQ(Fetch(memory, pc), registers, memory, pc))
CycleSLTI == Executing(SLTI) /\ Commit(ExecSLTI(Fetch(memory, pc), registers, memory, pc))

\* the loop has ended: print_state(pc, registers, memory, 128); return 0;
PrintState ==
    /\ ctl = "run"
    /\ halted
    /\ ctl' = "exit0"
    /\ UNCHANGED <<file, lineno, expected_addr, memory, registers, pc, halted,
                   cycles, last, link, stored>>

Next ==
    \/ LoadLine
    \/ LoadDone
    \/ CycleADD
    \/ CycleADDI
    \/ CycleJ
    \/ CycleJAL
    \/ CycleLW
    \/ CycleSW
    \/ CycleJEQ
    \/ CycleSLTI
    \/ PrintState

Spec == Init /\ [][Next]_vars

\* The process is one sequential thread that always takes its next step.
InitLive == InitWith(LiveImages)
LiveSpec == InitLive /\ [][Next]_vars /\ WF_vars(Next)

\* ===================================================== the properties
\* fields of the instruction the last completed cycle executed
LastOp   == Opcode(last.instruction)
LastA    == extract_bits(last.instruction, 10, 12)
LastB    == extract_bits(last.instruction, 7, 9)
LastDst3 == extract_bits(last.instruction, 4, 6)
LastSub  == extract_bits(last.instruction, 0, 3)
LastImm7 == extract_bits(last.instruction, 0, 6)
LastImm13 == extract_bits(last.instruction, 0, 12)
\* the signed value of a 7-bit two's-complement field
Signed7(v) == IF v >= 64 THEN v - 128 ELSE v

\* C1: register 0 equals 0 in the initial state and after every completed
\* cycle, whatever opcode the cycle executed.
C1_Reg0AlwaysZero == registers[0] = 0

\* a cycle has executed an ADDI with destination field 0 and a non-zero sum
C1_Witness ==
    /\ cycles > 0
    /\ LastOp = ADDI /\ LastB = 0
    /\ (last.regs[LastA] + Signed7(LastImm7)) % REG_SIZE # 0
    /\ registers[0] = 0

\* the address the last executed instruction transfers control to, reduced
\* modulo MEM_SIZE; NoAccess when it transfers nowhere
LastTarget ==
    CASE LastOp = J \/ LastOp = JAL -> LastImm13
      [] LastOp = ADD /\ LastSub = 8 -> last.regs[LastA] % MEM_SIZE
      [] LastOp = JEQ /\ last.regs[LastA] = last.regs[LastB] ->
            (last.fetch_idx + 1 + Signed7(LastImm7)) % MEM_SIZE
      [] OTHER -> NoAccess

\* C2 as stated: after every cycle the machine is halted iff the next
\* instruction address, after wraparound, equals the memory address the
\* executed instruction was fetched from.  It is stated here for the cycles
\* whose program counter values are 16-bit words, where it already fails.
C2_HaltsIffTargetsFetchAddress ==
    (cycles > 0 /\ last.current_pc < REG_SIZE /\ last.next_pc < REG_SIZE) =>
        (halted <=> (last.next_pc % MEM_SIZE = last.fetch_idx))

\* C2 amended: after every cycle the machine is halted iff the executed
\* instruction is a J, JAL, JR or taken JEQ whose target is its own address
\* and the program counter it was executed at is below MEM_SIZE; the image
\* that holds only J 0 halts after exactly 1 cycle.
C2_HaltsIffSelfTargetBelowMemSize ==
    /\ cycles > 0 =>
          (halted <=> (last.current_pc < MEM_SIZE /\ LastTarget = last.current_pc))
    /\ (file = JumpToSelfAt0 /\ cycles > 0) => (halted /\ cycles = 1 /\ pc = 0)

\* a taken JEQ that targets itself has halted the machine
C2_Witness ==
    /\ cycles > 0 /\ halted
    /\ LastOp = JEQ /\ LastTarget = last.fetch_idx

\* the words of the image file, as numbers, are all 16-bit (the fill lines
\* hold the word 0)
ImageWords16(f) ==
    \A k \in 1..Len(f.head) :
        LET w == stoi(f.head[k].data, 2)
        IN  (f.head[k].fmt /\ w.err = "none") => w.val < REG_SIZE

\* C3: with an image of 16-bit words, every register and every memory cell
\* holds a value in 0..65535, and every memory index used by a fetch, an LW
\* or an SW is in 0..8191.
C3_ValuesAndIndicesInRange ==
    \/ /\ \A r \in 0..NUM_REGS - 1 : registers[r] \in 0..REG_SIZE - 1
       /\ \A a \in DOMAIN memory : memory[a] \in 0..REG_SIZE - 1
       /\ DOMAIN memory \subseteq 0..MEM_SIZE - 1
       /\ last.fetch_idx \in 0..MEM_SIZE - 1
       /\ last.data_idx \in (0..MEM_SIZE - 1) \cup {NoAccess}
    \/ ~ImageWords16(file)

\* an SW whose base plus immediate passes the top of memory has stored at
\* the wrapped index
C3_Witness ==
    /\ ImageWords16(file)
    /\ cycles > 0 /\ LastOp = SW
    /\ last.regs[LastA] + Signed7(LastImm7) >= MEM_SIZE
    /\ last.data_idx = (last.regs[LastA] + Signed7(LastImm7)) % MEM_SIZE
    /\ MemRead(memory, last.data_idx) = last.regs[LastB]
    /\ last.regs[LastB] # 0

\* C4 as stated: the program counter is a 16-bit word in every state.
C4_PcIsWord == pc \in 0..REG_SIZE - 1

\* an instruction of the classes C5 names, with destination field 0
DstZeroInstr(i) ==
    \/ Opcode(i) = ADD /\ extract_bits(i, 4, 6) = 0 /\ extract_bits(i, 0, 3) \in 0..4
    \/ Opcode(i) \in {ADDI, LW, SLTI} /\ extract_bits(i, 7, 9) = 0

\* C5: a cycle that executes an ADD, SUB, OR, AND, SLT, ADDI, LW or SLTI
\* with destination register 0 leaves register 0 at 0 and changes no
\* register and no memory cell.
C5_DstZeroChangesNothing ==
    [][ (ctl = "run" /\ ~halted /\ DstZeroInstr(Fetch(memory, pc)))
          => (registers'[0] = 0 /\ registers' = registers /\ memory' = memory) ]_vars

\* ADD $0,$1,$2 has executed with a non-zero sum and every register is as before
C5_Witness ==
    /\ cycles > 0
    /\ LastOp = ADD /\ LastDst3 = 0 /\ LastSub = 0
    /\ (last.regs[LastA] + last.regs[LastB]) % REG_SIZE # 0
    /\ registers = last.regs

\* C6: ADDI with destination d # 0 leaves (regA + signed immediate) mod 65536
\* in register d; the cycle completes normally.
C6_AddiWraps16 ==
    (cycles > 0 /\ LastOp = ADDI /\ LastB # 0) =>
        /\ registers[LastB] = (last.regs[LastA] + Signed7(LastImm7)) % REG_SIZE
        /\ registers[LastB] \in 0..REG_SIZE - 1
        /\ ctl \in {"run", "exit0"}

\* 1 has been added to a register holding 65535, giving 0
C6_Witness ==
    /\ cycles > 0 /\ LastOp = ADDI /\ LastB # 0
    /\ last.regs[LastA] = 65535 /\ LastImm7 = 1
    /\ registers[LastB] = 0

\* the sign-extended immediate as a 16-bit value
SignExtended7(v) == IF v < 64 THEN v ELSE REG_SIZE - (128 - v)

\* C7: for the 7-bit immediate v of an executed ADDI, LW, SW, JEQ or SLTI,
\* sign_extend gives v when v < 64 and 65536 - (128 - v) otherwise, and the
\* instruction used it as the signed value: in the sum of ADDI, the address
\* of LW and SW, the branch target of JEQ and the comparison of SLTI.
\* ADDI $1,$0,-64 leaves 0xFFC0 in register 1.
C7_SignExtend ==
    /\ (cycles > 0 /\ LastOp \in {ADDI, LW, SW, JEQ, SLTI}) =>
          LET v == LastImm7
              s == Signed7(v)
          IN  /\ sign_extend(v) = SignExtended7(v)
              /\ (LastOp = ADDI /\ LastB # 0) =>
                    registers[LastB] = (last.regs[LastA] + s) % REG_SIZE
              /\ (LastOp = SW \/ (LastOp = LW /\ LastB # 0)) =>
                    last.data_idx = (last.regs[LastA] + s) % MEM_SIZE
              /\ (LastOp = JEQ /\ last.regs[LastA] = last.regs[LastB]) =>
                    last.next_pc % MEM_SIZE = (last.fetch_idx + 1 + s) % MEM_SIZE
              /\ (LastOp = SLTI /\ LastB # 0) =>
                    registers[LastB] =
                        (IF last.regs[LastA] < s % REG_SIZE THEN 1 ELSE 0)
    /\ (file = AddiMinus64 /\ cycles > 0) => registers[1] = 65472

\* ADDI $1,$0,-64 has executed
C7_Witness ==
    /\ file = AddiMinus64 /\ cycles = 1
    /\ LastOp = ADDI /\ LastImm7 = 64 /\ LastA = 0 /\ LastB = 1
    /\ registers[1] = 65472

\* what holds of the end-to-end image in every state of its run
EndToEndInv ==
    file = EndToEnd =>
        /\ cycles <= 4
        /\ cycles > 0 => last.current_pc = cycles - 1 /\ last.fetch_idx = cycles - 1
        /\ halted =>
              /\ cycles = 4 /\ pc = 3
              /\ registers = [r \in 0..NUM_REGS - 1 |->
                                 CASE r = 1 -> 5 [] r = 2 -> 3 [] r = 3 -> 8
                                   [] OTHER -> 0]

\* C8: the image ADDI $1,$0,5; ADDI $2,$0,3; ADD $3,$1,$2; J 3 is executed
\* in address order 0,1,2,3, one cycle each; its run eventually halts, and
\* when halted PC = 3, registers 1, 2, 3 hold 5, 3, 8 and the others 0.
C8_EndToEnd ==
    /\ []EndToEndInv
    /\ (file = EndToEnd) ~> (file = EndToEnd /\ halted /\ ctl = "exit0")

\* the end-to-end run has halted and handed its state to print_state
C8_Witness ==
    /\ file = EndToEnd /\ ctl = "exit0" /\ halted
    /\ pc = 3 /\ registers[3] = 8 /\ cycles = 4

\* a digit string without its leading zeros
RECURSIVE StripZeros(_)
StripZeros(ds) ==
    IF Len(ds) > 1 /\ ds[1] = 0 THEN StripZeros(Tail(ds)) ELSE ds

\* the line read last matched the pattern and its address is not the count
\* of lines accepted before it, or is MEM_SIZE or more
BadAddressRead ==
    /\ lineno > 0
    /\ Line(file, lineno).fmt
    /\ \/ StripZeros(Line(file, lineno).addr) # Dec(lineno - 1)
       \/ lineno - 1 >= MEM_SIZE

\* C9 as stated: a line whose address is out of sequence or beyond memory
\* ends the process with exit code 1, and no cycle is executed.
C9_BadAddressExits1 ==
    BadAddressRead => (ctl = "exit1" /\ cycles = 0)

\* what the code does guarantee for such a line: the process ends, by
\* exit(1) or by std::terminate, and no cycle is executed
C9_BadAddressEndsProcess ==
    BadAddressRead => (ctl \in {"exit1", "abort"} /\ cycles = 0)

\* C10: once execution has begun, a step that does not execute an SW leaves
\* memory unchanged.
C10_OnlySwWritesMemory ==
    [][ (ctl = "run" /\ Opcode(Fetch(memory, pc)) # SW) => memory' = memory ]_vars

\* an LW has read a cell of the loaded image into a register
C10_Witness ==
    /\ cycles > 0 /\ LastOp = LW /\ LastB # 0
    /\ last.data_idx \in DOMAIN memory
    /\ registers[LastB] = memory[last.data_idx]

\* C11: every word the loop fetches decodes to one of the eight opcodes, so
\* the default branch of the dispatch is never entered: the loop ends only
\* by the halt rule, and the process ends otherwise only in the loader.
C11_NoDecodeError ==
    /\ ctl = "run" =>
          Opcode(Fetch(memory, pc)) \in {ADD, ADDI, J, JAL, LW, SW, JEQ, SLTI}
    /\ ctl = "exit0" => halted
    /\ cycles > 0 => ctl \in {"run", "exit0"}

\* a word of more than 16 bits has been fetched and executed
C11_Witness ==
    /\ cycles > 0
    /\ last.instruction >= REG_SIZE
    /\ LastOp \in 0..7
    /\ ctl = "run"

\* C12 as stated: when the machine has halted, the PC handed to print_state
\* is the memory address of the last instruction executed.
C12_FinalPcIsLastAddress ==
    ctl = "exit0" => pc = last.fetch_idx

\* C13: a cycle that executes a JEQ fetched from address a leaves the
\* program counter at address (a + 1 + s) mod 8192 when regA = regB, s being
\* the signed immediate, and at (a + 1) mod 8192 otherwise; it changes no
\* register and no memory cell.
C13_JeqBranch ==
    [][ (ctl = "run" /\ ~halted /\ Opcode(Fetch(memory, pc)) = JEQ) =>
          LET i == Fetch(memory, pc)
              a == pc % MEM_SIZE
              taken == registers[extract_bits(i, 10, 12)]
                          = registers[extract_bits(i, 7, 9)]
              s == Signed7(extract_bits(i, 0, 6))
          IN  /\ pc' % MEM_SIZE =
                    (IF taken THEN (a + 1 + s) % MEM_SIZE ELSE (a + 1) % MEM_SIZE)
              /\ registers' = registers
              /\ memory' = memory ]_vars

\* a JEQ with a negative immediate has been taken between registers that
\* hold a non-zero value
C13_Witness ==
    /\ cycles > 0 /\ LastOp = JEQ
    /\ last.regs[LastA] = last.regs[LastB] /\ last.regs[LastA] # 0
    /\ Signed7(LastImm7) < -1
    /\ pc % MEM_SIZE = (last.fetch_idx + 1 + Signed7(LastImm7)) % MEM_SIZE
    /\ registers = last.regs

\* a JEQ between registers that differ has fallen through
C13_WitnessNotTaken ==
    /\ cycles > 0 /\ LastOp = JEQ
    /\ last.regs[LastA] # last.regs[LastB]
    /\ pc = last.current_pc + 1

\* C14: JAL leaves (current_pc + 1) mod 65536 in register 7, changes no
\* other register and continues at imm13; a JR $7 executed while register 7
\* still holds the link of a JAL fetched from address a continues at
\* address (a + 1) mod 8192.
C14_JalLinkAndReturn ==
    /\ (cycles > 0 /\ LastOp = JAL) =>
          /\ registers[7] = (last.current_pc + 1) % REG_SIZE
          /\ \A r \in 0..NUM_REGS - 1 : r # 7 => registers[r] = last.regs[r]
          /\ pc = LastImm13
    /\ (cycles > 0 /\ LastOp = ADD /\ LastSub = 8 /\ LastA = 7 /\ link # NoAccess) =>
          pc = (FetchIdx(link) + 1) % MEM_SIZE

\* a JR $7 has returned to the instruction after a JAL that was executed
\* with a program counter of 8192 or more
C14_Witness ==
    /\ cycles > 0 /\ LastOp = ADD /\ LastSub = 8 /\ LastA = 7
    /\ link >= MEM_SIZE
    /\ pc = (FetchIdx(link) + 1) % MEM_SIZE
    /\ pc # link + 1

\* a JR $7 after register 7 was modified continues elsewhere
C14_WitnessModified ==
    /\ cycles > 0 /\ LastOp = ADD /\ LastSub = 8 /\ LastA = 7
    /\ link = NoAccess
    /\ pc = 6

\* C15: a cycle that executes an SW leaves the value of regB in the cell at
\* (regA + s) mod 8192, s being the signed immediate, whatever regB is and
\* whatever the cell held; every other cell and every register is unchanged.
C15_SwStores ==
    [][ (ctl = "run" /\ ~halted /\ Opcode(Fetch(memory, pc)) = SW) =>
          LET i == Fetch(memory, pc)
              addr == (registers[extract_bits(i, 10, 12)]
                          + Signed7(extract_bits(i, 0, 6))) % MEM_SIZE
          IN  /\ MemRead(memory', addr) = registers[extract_bits(i, 7, 9)]
              /\ \A c \in (DOMAIN memory \cup DOMAIN memory') \ {addr} :
                    MemRead(memory', c) = MemRead(memory, c)
              /\ registers' = registers ]_vars

\* an SW has replaced the instruction at the address the next cycle fetches
\* by a word that decodes as a jump
C15_Witness ==
    /\ cycles > 0 /\ LastOp = SW /\ ctl = "run" /\ ~halted
    /\ last.data_idx = FetchIdx(pc)
    /\ Fetch(memory, pc) = last.regs[LastB]
    /\ Fetch(memory, pc) = Enc1(J, 4)
    /\ Signed7(LastImm7) < 0

\* an SW from register 0 has cleared the instruction the next cycle fetches
C15_WitnessReg0 ==
    /\ cycles > 0 /\ LastOp = SW /\ LastB = 0
    /\ file \in StoreImages
    /\ last.data_idx = FetchIdx(pc)
    /\ Fetch(memory, pc) = 0

\* bit k of v
BitOf(v, k) == (v \div Pow2(k)) % 2

\* C16: after an ADD-class instruction of sub-code 0..4 and destination
\* d # 0, executed on register values in 0..65535, register d holds
\* (regA + regB) mod 65536, (regA - regB) mod 65536, the bitwise OR, the
\* bitwise AND, or 1 if regA < regB else 0; the other registers are
\* unchanged and the program counter is current_pc + 1.
C16_AluResults ==
    (/\ cycles > 0 /\ LastOp = ADD /\ LastDst3 # 0 /\ LastSub \in 0..4
     /\ last.regs[LastA] \in 0..REG_SIZE - 1
     /\ last.regs[LastB] \in 0..REG_SIZE - 1) =>
        LET a == last.regs[LastA]
            b == last.regs[LastB]
            r == registers[LastDst3]
        IN  /\ LastSub = 0 => r = (a + b) % REG_SIZE
            /\ LastSub = 1 => r = (a - b) % REG_SIZE
            /\ LastSub = 2 =>
                  /\ r \in 0..REG_SIZE - 1
                  /\ \A k \in 0..15 :
                        BitOf(r, k) = 1 <=> (BitOf(a, k) = 1 \/ BitOf(b, k) = 1)
            /\ LastSub = 3 =>
                  /\ r \in 0..REG_SIZE - 1
                  /\ \A k \in 0..15 :
                        BitOf(r, k) = 1 <=> (BitOf(a, k) = 1 /\ BitOf(b, k) = 1)
            /\ LastSub = 4 => r = (IF a < b THEN 1 ELSE 0)
            /\ \A q \in 0..NUM_REGS - 1 :
                  q # LastDst3 => registers[q] = last.regs[q]
            /\ pc = last.current_pc + 1

\* an SLT into its own regB of operands that a signed comparison would
\* order the other way
C16_Witness ==
    /\ cycles > 0 /\ LastOp = ADD /\ LastSub = 4
    /\ LastDst3 = LastB /\ LastDst3 # 0
    /\ last.regs[LastA] >= 32768 /\ last.regs[LastB] \in 1..32767
    /\ registers[LastDst3] = 0

\* an OR and an AND of operands that share some bits and not others
C16_WitnessBits ==
    /\ cycles > 0 /\ LastOp = ADD /\ LastSub \in {2, 3} /\ LastDst3 # 0
    /\ last.regs[LastA] = 3855 /\ last.regs[LastB] = 21845
    /\ registers[LastDst3] \in {22367, 1285}

\* C17: a cycle that executes an ADD-class instruction whose sub-code is
\* not 0, 1, 2, 3, 4 or 8 changes no register and no memory cell, leaves
\* the program counter at current_pc + 1, does not halt and does not end
\* the process.
C17_OtherSubCodesAreNoOps ==
    [][ (/\ ctl = "run" /\ ~halted
         /\ Opcode(Fetch(memory, pc)) = ADD
         /\ extract_bits(Fetch(memory, pc), 0, 3) \notin {0, 1, 2, 3, 4, 8}) =>
            /\ registers' = registers
            /\ memory' = memory
            /\ pc' = pc + 1
            /\ ~halted'
            /\ ctl' = "run" ]_vars

\* a sub-code 15 with a destination that is not register 0 and that held a
\* value other than 0 has been executed
C17_Witness ==
    /\ cycles > 0 /\ LastOp = ADD /\ LastSub = 15
    /\ LastDst3 # 0 /\ last.regs[LastDst3] # 0
    /\ last.regs[LastA] # 0 /\ last.regs[LastB] # 0
    /\ registers = last.regs
    /\ pc = last.current_pc + 1 /\ ~halted /\ ctl = "run"

\* C18: after an SLTI with destination d # 0, register d is 1 if regA is
\* less than the immediate sign-extended to 16 bits, both taken as unsigned
\* values, and 0 otherwise; with imm7 >= 64, of signed value s, that is
\* regA < 65536 + s, and with imm7 = 127 it is regA # 65535.
C18_SltiUnsigned ==
    (/\ cycles > 0 /\ LastOp = SLTI /\ LastB # 0
     /\ last.regs[LastA] \in 0..REG_SIZE - 1) =>
        LET a == last.regs[LastA]
            r == registers[LastB]
        IN  /\ r = (IF a < SignExtended7(LastImm7) THEN 1 ELSE 0)
            /\ LastImm7 >= 64 =>
                  (r = 1 <=> a < REG_SIZE + Signed7(LastImm7))
            /\ LastImm7 = 127 => (r = 1 <=> a # REG_SIZE - 1)
            /\ r \in {0, 1}

\* an SLTI with immediate -1 has set its destination to 1 for a regA of
\* 32768, which is not less than -1 as a signed value
C18_Witness ==
    /\ cycles > 0 /\ LastOp = SLTI /\ LastB # 0 /\ LastB # LastA
    /\ LastImm7 = 127
    /\ last.regs[LastA] = 32768
    /\ registers[LastB] = 1

\* an SLTI with immediate -1 has cleared its destination for a regA of 65535
C18_WitnessEqual ==
    /\ cycles > 0 /\ LastOp = SLTI /\ LastB # 0
    /\ LastImm7 = 127
    /\ last.regs[LastA] = 65535
    /\ registers[LastB] = 0

\* the address of base and the 7-bit immediate field imm7
AddressOf(base, imm7) == (base + Signed7(imm7)) % MEM_SIZE

\* the last cycle executed LW d, imm(regA) with d # 0, and the latest SW to
\* the address of that load had the same regA, the same immediate and the
\* same base value
RoundTrip ==
    /\ cycles > 0 /\ LastOp = LW /\ LastB # 0
    /\ AddressOf(last.regs[LastA], LastImm7) \in DOMAIN stored
    /\ LET rec == stored[AddressOf(last.regs[LastA], LastImm7)]
       IN  /\ rec.regA = LastA
           /\ rec.imm7 = LastImm7
           /\ rec.base = last.regs[LastA]

\* C20: an LW d, imm(regA) with d # 0 that follows an SW regB, imm(regA),
\* with the same value in regA and no later SW to the same address, leaves
\* in register d the value regB had at the SW.
C20_StoreLoadRoundTrip ==
    RoundTrip =>
        registers[LastB] = stored[AddressOf(last.regs[LastA], LastImm7)].val

\* a value other than 0 has come back from address 8191 through base 0 and
\* immediate -1
C20_Witness ==
    /\ RoundTrip
    /\ last.regs[LastA] = 0 /\ LastImm7 = 127
    /\ last.data_idx = MEM_SIZE - 1
    /\ registers[LastB] = 65535

\* an SW through another base has written the address between the store
\* and the load, and the load returns what that SW stored
C20_WitnessIntervening ==
    /\ cycles > 0 /\ LastOp = LW /\ LastB # 0 /\ file \in RoundTripImages
    /\ ~RoundTrip
    /\ last.data_idx = 9 /\ 9 \in DOMAIN stored
    /\ stored[9].regA = 0
    /\ registers[LastB] = 0

\* the instruction a cycle starting in the current state executes according
\* to the fetch rule, and the effect of executing it with the program
\* counter reduced modulo 8192
WordAtPc == MemRead(memory, pc % MEM_SIZE)
ReducedEffect == Dispatch(WordAtPc, registers, memory, pc % MEM_SIZE)

\* the instruction does not jump: it leaves next_pc = current_pc + 1
NonJumping(instruction) ==
    \/ Opcode(instruction) \in {ADDI, LW, SW, SLTI}
    \/ Opcode(instruction) = ADD /\ extract_bits(instruction, 0, 3) # 8
    \/ /\ Opcode(instruction) = JEQ
       /\ registers[extract_bits(instruction, 10, 12)]
             # registers[extract_bits(instruction, 7, 9)]

\* C19 as stated: every cycle leaves the registers, the memory, the next
\* fetch address and the halt flag that the same cycle leaves when it starts
\* with the program counter reduced modulo 8192 (program counters that
\* stay 16-bit words).
C19_SameAsReducedPc ==
    [][ (ctl = "run" /\ ~halted /\ pc < REG_SIZE /\ pc' < REG_SIZE) =>
          /\ registers' = ZeroReg0(ReducedEffect.regs)
          /\ memory' = ReducedEffect.mem
          /\ pc' % MEM_SIZE = ReducedEffect.next_pc % MEM_SIZE
          /\ halted' = HaltCheck(ReducedEffect.next_pc, pc % MEM_SIZE) ]_vars

\* C19, amended: every cycle executes Memory[pc mod 8192]; a non-jumping
\* instruction at address 8191 does not halt and is followed by the word at
\* address 0; and a cycle leaves the memory, the next fetch address and the
\* registers that the same cycle leaves with the program counter reduced
\* modulo 8192, except that a JAL links (pc + 1) mod 65536 of the program
\* counter as it is, and that a cycle halts only if, in addition, its
\* program counter is below 8192.
C19_FetchWrapsModuloMemSize ==
    [][ (ctl = "run" /\ ~halted) =>
          /\ last'.instruction = WordAtPc
          /\ (pc % MEM_SIZE = MEM_SIZE - 1 /\ NonJumping(WordAtPc)) =>
                /\ ~halted'
                /\ pc' % MEM_SIZE = 0
                /\ WordAtPc' = MemRead(memory', 0)
          /\ memory' = ReducedEffect.mem
          /\ pc' % MEM_SIZE = ReducedEffect.next_pc % MEM_SIZE
          /\ \A q \in 0..NUM_REGS - 1 :
                (q # 7 \/ Opcode(WordAtPc) # JAL) =>
                    registers'[q] = ZeroReg0(ReducedEffect.regs)[q]
          /\ Opcode(WordAtPc) = JAL => registers'[7] = (pc + 1) % REG_SIZE
          /\ halted' = (pc < MEM_SIZE
                          /\ HaltCheck(ReducedEffect.next_pc, pc % MEM_SIZE)) ]_vars

\* after the no-op at address 8191 the machine, not halted, has executed
\* the word at address 0 with a program counter of 8192
C19_Witness ==
    /\ cycles > 1 /\ ~halted /\ ctl = "run"
    /\ last.current_pc = MEM_SIZE
    /\ last.fetch_idx = 0
    /\ last.instruction = Enc2(JEQ, 1, 0, 1)
    /\ pc = MEM_SIZE + 1

\* a jump to its own address, executed with a program counter of 8193, has
\* not halted
C19_WitnessNoHalt ==
    /\ cycles > 0 /\ ~halted /\ ctl = "run"
    /\ last.current_pc = MEM_SIZE + 1 /\ LastOp = J /\ LastImm13 = 1
    /\ pc = 1

=============================================================================
